---- MODULE Spec2Model ----
(***************************************************************************)
(* A model of the AI-to-SVG conversion service (server.js): the path       *)
(* validator, the page conversion loop of convertAiToSvg with its          *)
(* whole-document fallback and workspace cleanup, and the POST /convert    *)
(* handler, run by several overlapping requests over one shared temp       *)
(* directory and one clock.                                                *)
(*                                                                         *)
(* Strings that the code inspects (paths, error messages) are sequences:   *)
(* a path is a sequence of one-character strings, an error message is a    *)
(* sequence of message fragments, a file's content is a sequence whose     *)
(* length is the file's size.                                              *)
(***************************************************************************)
EXTENDS Integers, Sequences, FiniteSets, TLC

(***************************************************************************)
(* Bounds of the model.                                                    *)
(***************************************************************************)
\* the largest page count of the ordinary documents the requests upload
MaxDocPages == 2
\* the largest value the millisecond clock Date.now() reaches
MaxClock == 1
\* how many filesystem operations may fail unexpectedly in one behaviour
MaxFaults == 1
\* the largest number of segments of a path given to validateFilePath
MaxSegs == 3

(***************************************************************************)
(* Program constants.                                                      *)
(***************************************************************************)
\* while (hasMorePages && pageIndex < 100)
MAX_PAGES == 100
\* rateLimit({ max: 10 }): the requests one address may make in a window
RATE_MAX == 10
\* limits: { fileSize: 50 * 1024 * 1024 }, in bytes
FILE_SIZE_LIMIT == 52428800

(***************************************************************************)
(* Paths: path.resolve, String.prototype.startsWith, os.tmpdir().          *)
(***************************************************************************)
Sep == "/"

\* os.tmpdir(): the temp root, "/tmp"
tmpDir == <<"/", "t", "m", "p">>

\* process.cwd(): WORKDIR /usr/src/app, as path segments
cwdSegs == << <<"u", "s", "r">>, <<"s", "r", "c">>, <<"a", "p", "p">> >>

\* the segments a path is built from in this model
SegTmp == <<"t", "m", "p">>
SegTmpX == <<"t", "m", "p", "-", "x">>
SegUploads == <<"a", "i", "-", "u", "p", "l", "o", "a", "d", "s">>
SegEtc == <<"e", "t", "c">>
SegFile == <<"f">>
SegDot == <<".">>
SegDotDot == <<".", ".">>

\* str.startsWith(prefix): prefix is a leading substring of str, character by character
StartsWith(str, prefix) ==
    /\ Len(prefix) <= Len(str)
    /\ \A i \in 1..Len(prefix) : str[i] = prefix[i]

\* the segments of a path string: the pieces between separators (empty pieces included)
RECURSIVE SplitPath(_)
SplitPath(p) ==
    IF p = <<>> THEN << <<>> >>
    ELSE LET rest == SplitPath(Tail(p))
         IN  IF Head(p) = Sep
             THEN << <<>> >> \o rest
             ELSE << <<Head(p)>> \o Head(rest) >> \o Tail(rest)

\* path normalisation: "" and "." are dropped, ".." removes the segment before it
RECURSIVE NormalizeSegs(_, _)
NormalizeSegs(segs, acc) ==
    IF segs = <<>> THEN acc
    ELSE LET s == Head(segs)
         IN  IF s = <<>> \/ s = SegDot
             THEN NormalizeSegs(Tail(segs), acc)
             ELSE IF s = SegDotDot
             THEN NormalizeSegs(Tail(segs),
                                IF acc = <<>> THEN acc ELSE SubSeq(acc, 1, Len(acc) - 1))
             ELSE NormalizeSegs(Tail(segs), Append(acc, s))

\* segments joined into an absolute path string; no segment at all is the root "/"
RECURSIVE JoinSegs(_)
JoinSegs(segs) ==
    IF segs = <<>> THEN <<>>
    ELSE <<Sep>> \o Head(segs) \o JoinSegs(Tail(segs))

AbsolutePath(segs) == IF segs = <<>> THEN <<Sep>> ELSE JoinSegs(segs)

\* path.resolve(filePath): absolute, normalised, no trailing separator;
\* a relative path is resolved against the working directory
pathResolve(filePath) ==
    LET isAbs == filePath # <<>> /\ Head(filePath) = Sep
        segs  == SplitPath(filePath)
    IN  AbsolutePath(NormalizeSegs(IF isAbs THEN segs ELSE cwdSegs \o segs, <<>>))

\* validateFilePath(filePath): the resolved path, or throw Error('Invalid file path')
validateFilePath(filePath) ==
    LET resolvedPath == pathResolve(filePath)
    IN  IF ~StartsWith(resolvedPath, tmpDir)
        THEN [throws |-> TRUE, value |-> <<>>]
        ELSE [throws |-> FALSE, value |-> resolvedPath]

(***************************************************************************)
(* The middleware in front of the handler: the rate limiter, multer's      *)
(* file filter and size limit, and the error handling middleware.          *)
(***************************************************************************)
\* str.toLowerCase(), on the letters the file names of this model are made of
ToLowerCase(str) ==
    [i \in 1..Len(str) |-> IF str[i] = "A" THEN "a" ELSE IF str[i] = "I" THEN "i" ELSE str[i]]

\* str.endsWith(suffix)
EndsWith(str, suffix) ==
    /\ Len(suffix) <= Len(str)
    /\ SubSeq(str, Len(str) - Len(suffix) + 1, Len(str)) = suffix

\* upload.fileFilter: whether cb(null, true) is called; otherwise
\* cb(new Error('Only .ai files are allowed'))
fileFilter(file) ==
    \/ file.mimetype = "application/postscript"
    \/ file.mimetype = "application/illustrator"
    \/ EndsWith(ToLowerCase(file.originalname), <<".", "a", "i">>)

\* the errors the upload middleware passes on: the file filter's plain Error and
\* multer's MulterError for a file over the size limit
OnlyAiFilesAllowed ==
    [multer |-> FALSE, code |-> "", message |-> "Only .ai files are allowed"]
FileTooLarge ==
    [multer |-> TRUE, code |-> "LIMIT_FILE_SIZE", message |-> "File too large"]

\* limiter: a request beyond max in the window of its address is answered by the
\* limiter itself
RateLimited(hits) == hits > RATE_MAX

(***************************************************************************)
(* The external converter (inkscape), as the code observes it: an exit     *)
(* status, an output file written or not, and diagnostic text on stderr.   *)
(* What it does with an input is a property of the uploaded document.      *)
(***************************************************************************)
Requests == {"A", "B"}

NoStderr == ""

\* an uploaded document: the number of pages the converter exports one by one, what the
\* converter does when asked for the page after the last ("fail": non-zero exit,
\* "missing": exit 0 and no file, "empty": exit 0 and a zero-size file), what the
\* whole-document export does ("fail", "nofile", "empty", "ok"), and whether the
\* converter's --query-all succeeds on it
EndModes == {"fail", "missing", "empty"}

Doc(id, pages, endMode, endStderr, fb, fbStderr, queryOk) ==
    [id |-> id, pages |-> pages, endMode |-> endMode, endStderr |-> endStderr,
     fb |-> fb, fbStderr |-> fbStderr, queryOk |-> queryOk]

\* the documents with the given page counts and query outcomes; the whole-document
\* behaviour only matters for a document without exportable pages, the stderr text only
\* where the code reads it
DocsOf(id, pageCounts, queries) ==
    { Doc(id, k, e, NoStderr, "fail", NoStderr, p) :
        k \in pageCounts \ {0}, e \in EndModes, p \in queries }
    \cup { Doc(id, 0, "fail", s, "fail", NoStderr, p) :
             s \in {NoStderr, "stderr:page"}, p \in queries }
    \cup { Doc(id, 0, e, NoStderr, f, s, p) :
             e \in {"missing", "empty"}, f \in {"fail", "nofile"},
             s \in {NoStderr, "stderr:fallback"}, p \in queries }
    \cup { Doc(id, 0, e, NoStderr, f, NoStderr, p) :
             e \in {"missing", "empty"}, f \in {"empty", "ok"}, p \in queries }

\* the content of an exported file: a non-empty text naming the document and the page
PageSvg(doc, pageIndex) == <<doc.id, "page", pageIndex>>
WholeSvg(doc) == <<doc.id, "output", 0>>

\* no --pdf-page argument
NoPdfPage == 0

\* the mutant of PdfPageArg: the loop index is passed as the page number
PdfPageArg_ZeroBased(pageIndex) == pageIndex

\* inkscapeArgs of a page export: no page selection for the first page,
\* --pdf-page=<pageIndex + 1> for the others
PdfPageArg(pageIndex) == IF pageIndex = 0 THEN NoPdfPage ELSE pageIndex + 1

\* the page the converter exports, as an index: the one --pdf-page names, counting from
\* 1, and the first page without the argument
ExportedPage(pdfPage) == IF pdfPage = NoPdfPage THEN 0 ELSE pdfPage - 1

\* inkscape <input> [--pdf-page=pageIndex+1] --export-filename=page-<n>.svg: what the
\* converter does when it exports the page of index pageIndex
InkscapePage(doc, pageIndex) ==
    IF pageIndex < doc.pages
    THEN [exit |-> "ok", writes |-> TRUE, content |-> PageSvg(doc, pageIndex), stderr |-> NoStderr]
    ELSE IF doc.endMode = "fail"
    THEN [exit |-> "fail", writes |-> FALSE, content |-> <<>>, stderr |-> doc.endStderr]
    ELSE [exit |-> "ok", writes |-> doc.endMode = "empty", content |-> <<>>, stderr |-> NoStderr]

\* inkscape --query-all <input>
InkscapeQuery(doc) ==
    [exit |-> IF doc.queryOk THEN "ok" ELSE "fail", writes |-> FALSE, content |-> <<>>,
     stderr |-> NoStderr]

\* inkscape <input> --export-type=svg --export-filename=output.svg
InkscapeWhole(doc) ==
    IF doc.fb = "fail"
    THEN [exit |-> "fail", writes |-> FALSE, content |-> <<>>, stderr |-> doc.fbStderr]
    ELSE IF doc.fb = "nofile"
    THEN [exit |-> "ok", writes |-> FALSE, content |-> <<>>, stderr |-> doc.fbStderr]
    ELSE IF doc.fb = "empty"
    THEN [exit |-> "ok", writes |-> TRUE, content |-> <<>>, stderr |-> NoStderr]
    ELSE [exit |-> "ok", writes |-> TRUE, content |-> WholeSvg(doc), stderr |-> NoStderr]

\* the error execFile rejects with: its message is "Command failed: <cmd>\n<stderr>"
\* and it carries the captured stderr
ExecError(stderr) ==
    [thrown |-> TRUE,
     message |-> IF stderr = NoStderr THEN <<"Command failed: inkscape">>
                 ELSE <<"Command failed: inkscape", stderr>>,
     stderr |-> stderr]

NoError == [thrown |-> FALSE, message |-> <<>>, stderr |-> NoStderr]

InvalidFilePath == [thrown |-> TRUE, message |-> <<"Invalid file path">>, stderr |-> NoStderr]

FsError == [thrown |-> TRUE, message |-> <<"EIO">>, stderr |-> NoStderr]

\* new Error('Inkscape failed to create output file. The .ai file may be ...')
NoOutputFile ==
    [thrown |-> TRUE,
     message |-> <<"Inkscape failed to create output file",
                   ". The .ai file may be corrupted or in an unsupported format.">>,
     stderr |-> NoStderr]

\* new Error(`Inkscape conversion failed: ${error.message}${errorDetails}`)
ConversionFailed(error) ==
    [thrown |-> TRUE,
     message |-> <<"Inkscape conversion failed: ">> \o error.message
                 \o (IF error.stderr # NoStderr
                     THEN <<"\nInkscape error: ", error.stderr>> ELSE <<>>),
     stderr |-> NoStderr]

\* message.includes(text)
Includes(message, text) == \E i \in 1..Len(message) : message[i] = text

(***************************************************************************)
(* State.                                                                  *)
(***************************************************************************)
VARIABLES
    now,      \* Date.now(), in milliseconds
    dirs,     \* the workspace directories on disk, each named by the token of
              \* <tmpdir>/svg-output-<token>
    files,    \* the files in the workspaces: <<token, "page" | "output", index>> -> content
    uploads,  \* the requests whose uploaded input file is on disk
    faults,   \* the unexpected filesystem failures so far
    req,      \* each request's execution context
    inkscapeAvailable,  \* let inkscapeAvailable: the flag checkInkscape sets
    checked,  \* the startup call of checkInkscape has completed
    health    \* the last answer of GET /health, and whether the converter could be
              \* called at the moment it was served

vars == <<now, dirs, files, uploads, faults, req, inkscapeAvailable, checked, health>>

\* the state of the process outside the conversion requests
service == <<inkscapeAvailable, checked, health>>

NoHealth == [status |-> 0, available |-> FALSE, callable |-> FALSE]

NoDir == -1

\* a response: the status and the fields of its JSON body, or the text of a body that
\* was sent as a plain string
NoResponse == [status |-> 0, error |-> "", message |-> <<>>, help |-> FALSE,
               success |-> FALSE, count |-> 0, svgs |-> <<>>, text |-> ""]

NoOutcome == [kind |-> "none", svgs |-> <<>>, message |-> <<>>]

\* a request before it is received
NewRequest(input) ==
    [pc |-> "idle",
     hits |-> input.hits,                          \* requests of the address in the window
     file |-> input.file,                          \* the file part: type, name, size
     hasFile |-> input.hasFile,                    \* req.file
     uploadedFilePath |-> input.path,              \* req.file.path
     doc |-> input.doc,                            \* the uploaded document
     validatedFilePath |-> <<>>,                   \* null
     safeInputPath |-> <<>>,
     outputDir |-> NoDir,
     svgResults |-> <<>>,
     pageIndex |-> 0,
     hasMorePages |-> TRUE,
     error |-> NoError,                            \* the exception in flight
     response |-> NoResponse,
     \* history
     calls |-> <<>>,                               \* the converter invocations, in order
     fsPaths |-> <<>>,                             \* the filesystem calls on the upload's path
     created |-> FALSE,                            \* mkdir made the workspace
     rmCalled |-> FALSE, rmFailed |-> FALSE,
     unlinkCalled |-> FALSE, unlinkFailed |-> FALSE,
     fsFault |-> FALSE,                            \* a filesystem call of convertAiToSvg failed
     outcome |-> NoOutcome]                        \* how convertAiToSvg ended

(***************************************************************************)
(* The pieces of convertAiToSvg that decide its control flow.              *)
(***************************************************************************)
\* path.join(os.tmpdir(), `svg-output-${Date.now()}`): one directory name per clock value
OutputDirOf(timestamp) == timestamp

PageFile(outputDir, pageIndex) == <<outputDir, "page", pageIndex>>     \* page-<n>.svg
OutputFile(outputDir) == <<outputDir, "output", 0>>                    \* output.svg

Exists(fileSet, f) == f \in DOMAIN fileSet

\* the handler's catch: 500 with the error's message
FailedToConvert(error) ==
    [NoResponse EXCEPT !.status = 500, !.error = "Failed to convert file",
                       !.message = error.message]

\* the handler answers: the success envelope, or its catch block's 500
HandlerRespond(q) ==
    [q EXCEPT !.pc = "unlink",
              !.response = IF q.outcome.kind = "return"
                           THEN [NoResponse EXCEPT !.status = 200, !.success = TRUE,
                                    !.count = Len(q.outcome.svgs), !.svgs = q.outcome.svgs]
                           ELSE FailedToConvert(q.error)]

\* how convertAiToSvg ends once its finally block is done, and the handler's answer
Finished(q) ==
    HandlerRespond(
    [q EXCEPT !.outcome = IF q.error.thrown
                          THEN [NoOutcome EXCEPT !.kind = "throw", !.message = q.error.message]
                          ELSE [NoOutcome EXCEPT !.kind = "return", !.svgs = q.svgResults]])

\* the mutant of Throw: the exception leaves convertAiToSvg without the finally block
Throw_NoFinally(q, error) == Finished([q EXCEPT !.error = error])

\* an exception leaves the try block: the finally block runs next
Throw(q, error) == [q EXCEPT !.pc = "rm", !.error = error]

\* the mutant of Return: the call returns without running its finally block
Return_NoFinally(q) == Finished(q)

\* return svgResults: the finally block runs next
Return(q) == [q EXCEPT !.pc = "rm"]

\* the mutant of LoopTest: the whole-document export follows the loop in any case
LoopTest_AlwaysFallback(q) ==
    IF q.hasMorePages /\ q.pageIndex < MAX_PAGES
    THEN [q EXCEPT !.pc = "export"]
    ELSE [q EXCEPT !.pc = "fallback"]

\* the mutant of LoopTest: the loop has no page limit
LoopTest_NoLimit(q) ==
    IF q.hasMorePages
    THEN [q EXCEPT !.pc = "export"]
    ELSE IF Len(q.svgResults) = 0
    THEN [q EXCEPT !.pc = "fallback"]
    ELSE Return(q)

\* the mutant of LoopTest: the page limit is taken one too low
LoopTest_OffByOne(q) ==
    IF q.hasMorePages /\ q.pageIndex < MAX_PAGES - 1
    THEN [q EXCEPT !.pc = "export"]
    ELSE IF Len(q.svgResults) = 0
    THEN [q EXCEPT !.pc = "fallback"]
    ELSE Return(q)

\* the loop condition, and what follows the loop: the fallback when no page was
\* converted, the return otherwise
LoopTest(q) ==
    IF q.hasMorePages /\ q.pageIndex < MAX_PAGES
    THEN [q EXCEPT !.pc = "export"]
    ELSE IF Len(q.svgResults) = 0
    THEN [q EXCEPT !.pc = "fallback"]
    ELSE Return(q)

\* the mutant of ExportFailed: a failure is an error at any page
ExportFailed_AlwaysThrows(q, error) == Throw(q, ConversionFailed(error))

\* the mutant of ExportFailed: a first-page failure ends the loop like a later one
ExportFailed_NoThrow(q, error) == LoopTest([q EXCEPT !.hasMorePages = FALSE])

\* catch (error) of a page export: a first-page failure is an error, a later one ends the loop
ExportFailed(q, error) ==
    IF q.pageIndex = 0
    THEN Throw(q, ConversionFailed(error))
    ELSE LoopTest([q EXCEPT !.hasMorePages = FALSE])

\* fs.stat(outputPath) of a page file: read it when its size is positive, else no more pages
PageStat(q, exists, size) ==
    IF exists /\ size > 0
    THEN [q EXCEPT !.pc = "read"]
    ELSE LoopTest([q EXCEPT !.hasMorePages = FALSE])

\* fs.readFile of a page file: push the content and go on to the next page;
\* a failed read is caught like a failed stat
PageRead(q, ok, svgContent) ==
    IF ok
    THEN LoopTest([q EXCEPT !.svgResults = Append(@, svgContent), !.pageIndex = @ + 1])
    ELSE LoopTest([q EXCEPT !.hasMorePages = FALSE])

\* the outer catch of the fallback: an error other than the missing-output one is wrapped
FallbackCatch(q, error) ==
    IF ~Includes(error.message, "Inkscape failed to create output file")
    THEN Throw(q, ConversionFailed(error))
    ELSE Throw(q, error)

\* the inner catch of the fallback: the output file cannot be accessed or read
FallbackNoFile(q) ==
    FallbackCatch(q, NoOutputFile)

\* fs.access(outputPath) of the fallback's output file
FallbackAccess(q, exists) ==
    IF exists THEN [q EXCEPT !.pc = "readfb"] ELSE FallbackNoFile(q)

\* the mutant of FallbackRead: the content read from the fallback's output is dropped
FallbackRead_Dropped(q, ok, svgContent) ==
    IF ok THEN Return(q) ELSE FallbackNoFile(q)

\* fs.readFile of the fallback's output file: its content is the sole result
FallbackRead(q, ok, svgContent) ==
    IF ok
    THEN Return([q EXCEPT !.svgResults = Append(@, svgContent)])
    ELSE FallbackNoFile(q)

\* what the converter is seen to do: as the document dictates when the output directory
\* exists; without it no file can be written, and the exit status is either one
Observed(result, dirExists) ==
    IF dirExists THEN {result}
    ELSE { [result EXCEPT !.writes = FALSE, !.exit = e] : e \in {"ok", "fail"} }

\* one converter invocation as the history keeps it: the command, the page index, the
\* --pdf-page argument, the input path given, the exit status, whether an output file
\* was written, the stderr text
Invocation(cmd, pageIndex, path, res) ==
    [cmd |-> cmd, page |-> pageIndex,
     pdfPage |-> IF cmd = "page" THEN PdfPageArg(pageIndex) ELSE NoPdfPage,
     path |-> path, exit |-> res.exit, wrote |-> res.writes, stderr |-> res.stderr]

\* inkscape --version: whether the converter can be called at this moment
InkscapeVersion(ok) ==
    [exit |-> IF ok THEN "ok" ELSE "fail", writes |-> FALSE, content |-> <<>>,
     stderr |-> NoStderr]

\* const pathToDelete = validatedFilePath || uploadedFilePath
PathToDelete(q) ==
    IF q.validatedFilePath # <<>> THEN q.validatedFilePath ELSE q.uploadedFilePath

\* the mutant of HandlerValidate: a rejected path does not stop the handler
HandlerValidate_Proceed(q) ==
    LET v == validateFilePath(q.uploadedFilePath)
    IN  [q EXCEPT !.pc = "version", !.validatedFilePath = v.value]

\* validatedFilePath = validateFilePath(uploadedFilePath), and the handler's catch
HandlerValidate(q) ==
    LET v == validateFilePath(q.uploadedFilePath)
    IN  IF v.throws
        THEN [q EXCEPT !.pc = "unlink", !.response = FailedToConvert(InvalidFilePath)]
        ELSE [q EXCEPT !.pc = "version", !.validatedFilePath = v.value]

\* the mutant of NotInstalled: the failed availability check is ignored and the
\* conversion is entered
NotInstalled_Converts(q) ==
    [q EXCEPT !.pc = "mkdir", !.safeInputPath = q.validatedFilePath,
              !.outputDir = OutputDirOf(0)]

\* the mutant of NotInstalled: the early return leaves the handler without its finally block
NotInstalled_NoFinally(q) ==
    [q EXCEPT !.pc = "finished",
              !.response = [NoResponse EXCEPT !.status = 500, !.help = TRUE,
                               !.error = "Inkscape is not installed or not available in PATH"]]

\* the availability check failed: 500 with install guidance, then the finally block
NotInstalled(q) ==
    [q EXCEPT !.pc = "unlink",
              !.response = [NoResponse EXCEPT !.status = 500, !.help = TRUE,
                               !.error = "Inkscape is not installed or not available in PATH"]]

\* convertAiToSvg is entered: the path is validated again and the workspace is named
\* after the clock
ConvertEnter(q, timestamp) ==
    LET v == validateFilePath(q.validatedFilePath)
    IN  IF v.throws
        THEN HandlerRespond([q EXCEPT !.error = InvalidFilePath,
                               !.outcome = [NoOutcome EXCEPT !.kind = "throw",
                                                             !.message = InvalidFilePath.message]])
        ELSE [q EXCEPT !.pc = "mkdir", !.safeInputPath = v.value,
                       !.outputDir = OutputDirOf(timestamp)]

\* the limiter's rejection: status 429 and the configured message string as the body
TooManyRequests ==
    [NoResponse EXCEPT !.status = 429,
        !.text = "Too many conversion requests from this IP, please try again later."]

\* app.use((error, req, res, next) => ...): the error handling middleware
ErrorMiddleware(error) ==
    IF error.multer
    THEN IF error.code = "LIMIT_FILE_SIZE"
         THEN [NoResponse EXCEPT !.status = 400,
                                 !.error = "File size too large. Maximum size is 50MB."]
         ELSE [NoResponse EXCEPT !.status = 400, !.error = error.message]
    ELSE [NoResponse EXCEPT !.status = 500,
             !.error = IF error.message # "" THEN error.message ELSE "Internal server error"]

\* limiter, upload.single('file'): the response of a request that does not reach the
\* handler, or NoResponse when it does
Middleware(q) ==
    IF RateLimited(q.hits) THEN TooManyRequests
    ELSE IF q.hasFile /\ ~fileFilter(q.file) THEN ErrorMiddleware(OnlyAiFilesAllowed)
    ELSE IF q.hasFile /\ q.file.size > FILE_SIZE_LIMIT THEN ErrorMiddleware(FileTooLarge)
    ELSE NoResponse

(***************************************************************************)
(* Actions: one per step of the handler between two suspension points.     *)
(***************************************************************************)
Step(r, q) == req' = [req EXCEPT ![r] = q]

\* the clock advances
Tick ==
    /\ now < MaxClock
    /\ now' = now + 1
    /\ UNCHANGED <<dirs, files, uploads, faults, req, service>>

\* POST /convert arrives: the limiter or the upload middleware may answer it; in the
\* handler, without a file it is answered 400 at once; the stored path of an upload is
\* validated
Receive(r) ==
    /\ req[r].pc = "idle"
    /\ IF Middleware(req[r]) # NoResponse
       THEN /\ Step(r, [req[r] EXCEPT !.pc = "finished", !.response = Middleware(req[r])])
            /\ UNCHANGED uploads
       ELSE IF ~req[r].hasFile
       THEN /\ Step(r, [req[r] EXCEPT !.pc = "finished",
                          !.response = [NoResponse EXCEPT !.status = 400,
                                                          !.error = "No file uploaded"]])
            /\ UNCHANGED uploads
       ELSE /\ Step(r, HandlerValidate(req[r]))
            /\ uploads' = uploads \cup {r}
    /\ UNCHANGED <<now, dirs, files, faults, service>>

\* await execFileAsync('inkscape', ['--version']); when it succeeds convertAiToSvg is
\* entered
Version(r) ==
    /\ req[r].pc = "version"
    /\ \E ok \in BOOLEAN :
         LET q == [req[r] EXCEPT
                     !.calls = Append(@, Invocation("version", 0, <<>>, InkscapeVersion(ok)))]
         IN  Step(r, IF ok THEN ConvertEnter(q, now) ELSE NotInstalled(q))
    /\ UNCHANGED <<now, dirs, files, uploads, faults, service>>

\* await fs.mkdir(outputDir, { recursive: true }), outside the try block
Mkdir(r) ==
    /\ req[r].pc = "mkdir"
    /\ \/ /\ dirs' = dirs \cup {req[r].outputDir}
          /\ Step(r, [req[r] EXCEPT !.pc = "query", !.created = TRUE])
          /\ UNCHANGED faults
       \/ /\ faults < MaxFaults
          /\ faults' = faults + 1
          /\ Step(r, HandlerRespond([req[r] EXCEPT !.error = FsError, !.fsFault = TRUE,
                         !.outcome = [NoOutcome EXCEPT !.kind = "throw",
                                                       !.message = FsError.message]]))
          /\ UNCHANGED dirs
    /\ UNCHANGED <<now, files, uploads, service>>

\* the mutant of QueryDone: a failed query is an error of the conversion
QueryDone_Aborts(q, res) ==
    IF res.exit = "fail"
    THEN Throw(q, ConversionFailed(ExecError(res.stderr)))
    ELSE LoopTest([q EXCEPT !.svgResults = <<>>, !.pageIndex = 0, !.hasMorePages = TRUE])

\* try { await execFileAsync('inkscape', ['--query-all', ...]) } catch (err) { }: whatever
\* the query did, the page loop starts with no result, at page index 0
QueryDone(q, res) ==
    LoopTest([q EXCEPT !.svgResults = <<>>, !.pageIndex = 0, !.hasMorePages = TRUE])

\* inkscape --query-all: its failure is ignored; then the page loop starts
Query(r) ==
    /\ req[r].pc = "query"
    /\ LET res == InkscapeQuery(req[r].doc)
       IN  Step(r, QueryDone([req[r] EXCEPT
                      !.calls = Append(@, Invocation("query", 0, req[r].safeInputPath, res))],
                      res))
    /\ UNCHANGED <<now, dirs, files, uploads, faults, service>>

\* the converter is run for page pageIndex
Export(r) ==
    /\ req[r].pc = "export"
    /\ \E res \in Observed(InkscapePage(req[r].doc, ExportedPage(PdfPageArg(req[r].pageIndex))),
                            req[r].outputDir \in dirs) :
         LET q == [req[r] EXCEPT
                     !.calls = Append(@, Invocation("page", req[r].pageIndex,
                                                    req[r].safeInputPath, res))]
         IN  /\ files' = IF res.writes
                         THEN (PageFile(q.outputDir, q.pageIndex) :> res.content) @@ files
                         ELSE files
             /\ Step(r, IF res.exit = "ok"
                        THEN [q EXCEPT !.pc = "stat"]
                        ELSE ExportFailed(q, ExecError(res.stderr)))
    /\ UNCHANGED <<now, dirs, uploads, faults, service>>

\* const stats = await fs.stat(outputPath)
Stat(r) ==
    /\ req[r].pc = "stat"
    /\ LET f == PageFile(req[r].outputDir, req[r].pageIndex)
       IN  Step(r, PageStat(req[r], Exists(files, f),
                            IF Exists(files, f) THEN Len(files[f]) ELSE 0))
    /\ UNCHANGED <<now, dirs, files, uploads, faults, service>>

\* const svgContent = await fs.readFile(outputPath, 'utf-8')
Read(r) ==
    /\ req[r].pc = "read"
    /\ LET f == PageFile(req[r].outputDir, req[r].pageIndex)
       IN  \/ /\ Exists(files, f)
              /\ Step(r, PageRead(req[r], TRUE, files[f]))
              /\ UNCHANGED faults
           \/ /\ ~Exists(files, f)
              /\ Step(r, PageRead(req[r], FALSE, <<>>))
              /\ UNCHANGED faults
           \/ /\ faults < MaxFaults
              /\ faults' = faults + 1
              /\ Step(r, PageRead([req[r] EXCEPT !.fsFault = TRUE], FALSE, <<>>))
    /\ UNCHANGED <<now, dirs, files, uploads, service>>

\* no page was converted: the converter is run on the whole document
Fallback(r) ==
    /\ req[r].pc = "fallback"
    /\ \E res \in Observed(InkscapeWhole(req[r].doc), req[r].outputDir \in dirs) :
         LET q == [req[r] EXCEPT
                     !.calls = Append(@, Invocation("fallback", 0, req[r].safeInputPath, res))]
         IN  /\ files' = IF res.writes
                         THEN (OutputFile(q.outputDir) :> res.content) @@ files
                         ELSE files
             /\ Step(r, IF res.exit = "ok"
                        THEN [q EXCEPT !.pc = "access"]
                        ELSE FallbackCatch(q, ExecError(res.stderr)))
    /\ UNCHANGED <<now, dirs, uploads, faults, service>>

\* await fs.access(outputPath)
Access(r) ==
    /\ req[r].pc = "access"
    /\ Step(r, FallbackAccess(req[r], Exists(files, OutputFile(req[r].outputDir))))
    /\ UNCHANGED <<now, dirs, files, uploads, faults, service>>

\* const svgContent = await fs.readFile(outputPath, 'utf-8') of the fallback
ReadFallback(r) ==
    /\ req[r].pc = "readfb"
    /\ LET f == OutputFile(req[r].outputDir)
       IN  \/ /\ Exists(files, f)
              /\ Step(r, FallbackRead(req[r], TRUE, files[f]))
              /\ UNCHANGED faults
           \/ /\ ~Exists(files, f)
              /\ Step(r, FallbackRead(req[r], FALSE, <<>>))
              /\ UNCHANGED faults
           \/ /\ faults < MaxFaults
              /\ faults' = faults + 1
              /\ Step(r, FallbackRead([req[r] EXCEPT !.fsFault = TRUE], FALSE, <<>>))
    /\ UNCHANGED <<now, dirs, files, uploads, service>>

\* the mutant of RmFailed: the failure of the removal becomes the error of the call
RmFailed_Propagates(q) ==
    [q EXCEPT !.rmCalled = TRUE, !.rmFailed = TRUE, !.fsFault = TRUE, !.error = FsError]

\* catch (err) of the finally block: the failure of fs.rm is logged and nothing else
RmFailed(q) == [q EXCEPT !.rmCalled = TRUE, !.rmFailed = TRUE, !.fsFault = TRUE]

\* finally: await fs.rm(outputDir, { recursive: true, force: true }); a failure is logged
Rm(r) ==
    /\ req[r].pc = "rm"
    /\ \/ /\ dirs' = dirs \ {req[r].outputDir}
          /\ files' = [f \in {g \in DOMAIN files : g[1] # req[r].outputDir} |-> files[f]]
          /\ Step(r, Finished([req[r] EXCEPT !.rmCalled = TRUE]))
          /\ UNCHANGED faults
       \/ /\ faults < MaxFaults
          /\ faults' = faults + 1
          /\ Step(r, Finished(RmFailed(req[r])))
          /\ UNCHANGED <<dirs, files>>
    /\ UNCHANGED <<now, uploads, service>>

\* finally: await fs.unlink(pathToDelete); a failure is logged
Unlink(r) ==
    /\ req[r].pc = "unlink"
    /\ LET q == [req[r] EXCEPT !.pc = "finished", !.unlinkCalled = TRUE,
                               !.fsPaths = Append(@, [op |-> "unlink", path |-> PathToDelete(req[r])])]
       IN  \/ /\ uploads' = uploads \ {r}
              /\ Step(r, q)
              /\ UNCHANGED faults
           \/ /\ faults < MaxFaults
              /\ faults' = faults + 1
              /\ Step(r, [q EXCEPT !.unlinkFailed = TRUE])
              /\ UNCHANGED uploads
    /\ UNCHANGED <<now, dirs, files, service>>

\* app.listen's callback: await checkInkscape(), which probes inkscape --version once
\* and sets the flag
CheckInkscape ==
    /\ ~checked
    /\ checked' = TRUE
    /\ \E ok \in BOOLEAN : inkscapeAvailable' = (InkscapeVersion(ok).exit = "ok")
    /\ UNCHANGED <<now, dirs, files, uploads, faults, req, health>>

\* GET /health: 200 with the flag as inkscape.available, whatever the converter's
\* state at this moment is
Health ==
    /\ \E callable \in BOOLEAN :
         health' = [status |-> 200, available |-> inkscapeAvailable, callable |-> callable]
    /\ UNCHANGED <<now, dirs, files, uploads, faults, req, inkscapeAvailable, checked>>

Next ==
    \/ Tick
    \/ \E r \in Requests :
         \/ Receive(r)
         \/ Version(r)
         \/ Mkdir(r)
         \/ Query(r)
         \/ Export(r)
         \/ Stat(r)
         \/ Read(r)
         \/ Fallback(r)
         \/ Access(r)
         \/ ReadFallback(r)
         \/ Rm(r)
         \/ Unlink(r)

(***************************************************************************)
(* Initial states: the inputs of the requests.                             *)
(***************************************************************************)
\* the path multer stores an upload at: <tmpdir>/ai-uploads/<name>
UploadPath == JoinSegs(<<SegTmp, SegUploads, SegFile>>)
\* a sibling of the temp root, and a path outside it
SiblingPath == JoinSegs(<<SegTmpX, SegFile>>)
OutsidePath == JoinSegs(<<SegTmp, SegDotDot, SegEtc, SegFile>>)

\* the file part of an ordinary upload
AiFile == [mimetype |-> "application/postscript", originalname |-> <<"a", ".", "a", "i">>,
           size |-> 1]

Input(hasFile, path, doc) ==
    [hasFile |-> hasFile, path |-> path, doc |-> doc, file |-> AiFile, hits |-> 1]

\* file parts that differ from the ordinary one in type, name or size
OtherFiles ==
    { [AiFile EXCEPT !.mimetype = "application/illustrator", !.originalname = <<"a", ".", "p", "n", "g">>],
      [AiFile EXCEPT !.mimetype = "image/png", !.originalname = <<"a", ".", "A", "I">>],
      [AiFile EXCEPT !.mimetype = "image/png", !.originalname = <<"a", ".", "p", "n", "g">>],
      [AiFile EXCEPT !.mimetype = "image/png", !.originalname = <<"a", "i">>],
      [AiFile EXCEPT !.size = FILE_SIZE_LIMIT],
      [AiFile EXCEPT !.size = FILE_SIZE_LIMIT + 1] }

NoDoc(id) == Doc(id, 0, "fail", NoStderr, "fail", NoStderr, TRUE)

\* the requests of one client population: uploads of ordinary documents at the upload
\* path, an upload stored at a sibling of the temp root or outside it, no file at all
InputsOf(id, pageCounts, queries) ==
    { Input(TRUE, UploadPath, d) : d \in DocsOf(id, pageCounts, queries) }
    \cup { Input(TRUE, p, Doc(id, 1, "fail", NoStderr, "fail", NoStderr, TRUE)) :
             p \in {SiblingPath, OutsidePath} }
    \cup { Input(FALSE, <<>>, NoDoc(id)) }
    \cup { [Input(TRUE, UploadPath, NoDoc(id)) EXCEPT !.file = f] : f \in OtherFiles }
    \cup { [Input(h, IF h THEN UploadPath ELSE <<>>, NoDoc(id)) EXCEPT !.hits = n] :
             h \in BOOLEAN, n \in {RATE_MAX, RATE_MAX + 1} }

InitDisk ==
    /\ now = 0
    /\ dirs = {}
    /\ files = [f \in {} |-> <<>>]
    /\ uploads = {}
    /\ faults = 0
    /\ inkscapeAvailable = FALSE
    /\ checked = FALSE
    /\ health = NoHealth

\* the uploads of the request that overlaps the other: a one-page document, one whose
\* pages come out empty and is exported whole, one the converter fails on at once
TrafficOf(id) ==
    { Input(TRUE, UploadPath, d) :
        d \in { Doc(id, 1, "missing", NoStderr, "fail", NoStderr, TRUE),
                Doc(id, 0, "empty", NoStderr, "ok", NoStderr, TRUE),
                Doc(id, 0, "fail", NoStderr, "fail", NoStderr, TRUE) } }

\* two overlapping requests, each uploading its own document: request A makes any
\* request, request B is the traffic it overlaps with (the outcome of --query-all, which
\* the code ignores, varies in SpecSolo)
Init ==
    /\ InitDisk
    /\ req \in { [r \in Requests |-> NewRequest(IF r = "A" THEN a ELSE b)] :
                   a \in InputsOf("A", 0..MaxDocPages, {TRUE}), b \in TrafficOf("B") }

Spec == Init /\ [][Next]_vars

\* the page counts of the documents of a request that runs alone: the ordinary ones and
\* those around the page limit
SoloPageCounts == 0..MaxDocPages \cup {MAX_PAGES - 1, MAX_PAGES, MAX_PAGES + 1}

\* one request converting alone: request B carries no file and is answered at once
InitSolo ==
    /\ InitDisk
    /\ req \in { [r \in Requests |-> NewRequest(IF r = "A" THEN a
                                                ELSE Input(FALSE, <<>>, NoDoc(r)))] :
                   a \in InputsOf("A", SoloPageCounts, BOOLEAN) }

SpecSolo == InitSolo /\ [][Next]_vars

\* the paths of at most MaxSegs segments, absolute or relative
Segments == {SegTmp, SegTmpX, SegUploads, SegEtc, SegFile, SegDot, SegDotDot}

RECURSIVE RelativePath(_)
RelativePath(segs) ==
    IF segs = <<>> THEN <<>>
    ELSE IF Len(segs) = 1 THEN Head(segs)
    ELSE Head(segs) \o <<Sep>> \o RelativePath(Tail(segs))

PathInputs ==
    UNION { { RelativePath(segs) : segs \in [1..n -> Segments] }
            \cup { <<Sep>> \o RelativePath(segs) : segs \in [1..n -> Segments] }
            \cup { <<Sep>> \o RelativePath(segs) \o <<Sep>> : segs \in [1..n -> Segments] } :
            n \in 0..MaxSegs }

\* uploads stored at any path: only the handler's validation step is taken
InitPath ==
    /\ InitDisk
    /\ req \in { [r \in Requests |-> NewRequest(IF r = "A"
                                                THEN Input(TRUE, p, NoDoc(r))
                                                ELSE Input(FALSE, <<>>, NoDoc(r)))] :
                   p \in PathInputs }

NextPath == \E r \in Requests : Receive(r)

SpecPath == InitPath /\ [][NextPath]_vars

\* the whole service: the startup check, health requests, and conversion requests
InitService ==
    /\ InitDisk
    /\ req \in { [r \in Requests |-> NewRequest(IF r = "A" THEN a ELSE b)] :
                   a \in TrafficOf("A"),
                   b \in { Input(FALSE, <<>>, NoDoc("B")),
                           Input(TRUE, UploadPath,
                                 Doc("B", 1, "missing", NoStderr, "fail", NoStderr, TRUE)) } }

NextService ==
    \/ CheckInkscape
    \/ Health
    \/ Next

SpecService == InitService /\ [][NextService]_vars

\* no other request is being handled: r is handled from start to end on its own
Sequential(r) == \A o \in Requests \ {r} : req[o].pc \in {"idle", "finished"}

\* the same upload made twice, the second request after the first has been answered
InitTwice ==
    /\ InitDisk
    /\ req \in { [r \in Requests |-> NewRequest(a)] :
                   a \in InputsOf("A", 0..MaxDocPages, {TRUE}) }

NextTwice ==
    \/ Tick
    \/ \E r \in Requests :
         /\ Sequential(r)
         /\ \/ Receive(r)
            \/ Version(r)
            \/ Mkdir(r)
            \/ Query(r)
            \/ Export(r)
            \/ Stat(r)
            \/ Read(r)
            \/ Fallback(r)
            \/ Access(r)
            \/ ReadFallback(r)
            \/ Rm(r)
            \/ Unlink(r)

SpecTwice == InitTwice /\ [][NextTwice]_vars

\* the same document uploaded twice, one request after the other: the converter's
\* --query-all succeeds on the upload of request A and fails on that of request B
InitProbe ==
    /\ InitDisk
    /\ req \in { [r \in Requests |->
                     NewRequest(Input(TRUE, UploadPath, [d EXCEPT !.queryOk = (r = "A")]))] :
                   d \in DocsOf("A", 0..MaxDocPages, {TRUE}) }

SpecProbe == InitProbe /\ [][NextTwice]_vars

(***************************************************************************)
(* Properties.                                                             *)
(***************************************************************************)
\* convertAiToSvg has returned or raised
Called(q) == q.outcome.kind # "none"

LastCall(q) == q.calls[Len(q.calls)]

\* the pages of a document, in page order
PagesOf(doc, n) == [i \in 1..n |-> PageSvg(doc, i - 1)]

\* C1: a call on a document of K pages (1 <= K <= 100), running alone and with its
\* filesystem calls succeeding, returns exactly the K page contents the converter
\* wrote, in page order, and its workspace directory does not exist when it returns
C1_PagesInOrder ==
    \A r \in Requests :
        LET q == req[r]
        IN  (Called(q) /\ q.created /\ ~q.fsFault /\ q.doc.pages \in 1..MAX_PAGES)
            => /\ q.outcome.kind = "return"
               /\ q.outcome.svgs = PagesOf(q.doc, q.doc.pages)
               /\ q.outputDir \notin dirs

\* a document of exactly MAX_PAGES pages was converted to MAX_PAGES results
C1_Witness ==
    \E r \in Requests :
        /\ Called(req[r]) /\ req[r].created /\ ~req[r].fsFault
        /\ req[r].doc.pages = MAX_PAGES
        /\ Len(req[r].outcome.svgs) = MAX_PAGES
        /\ req[r].outputDir \notin dirs

\* C2: once the invocation for page index 0 has failed, it is the last converter
\* invocation of the call (no later page, no fallback) and the call raises
\* 'Inkscape conversion failed: ...'
C2_FirstPageFailureIsFatal ==
    \A r \in Requests :
        LET q == req[r]
        IN  \A i \in 1..Len(q.calls) :
                (q.calls[i].cmd = "page" /\ q.calls[i].page = 0 /\ q.calls[i].exit = "fail")
                => /\ i = Len(q.calls)
                   /\ q.pc \in {"rm", "unlink", "finished"}
                   /\ q.error.thrown
                   /\ Head(q.error.message) = "Inkscape conversion failed: "
                   /\ (Called(q) => q.outcome.kind = "throw")

\* a call ended by a failure of its first page export
C2_Witness ==
    \E r \in Requests :
        /\ req[r].pc = "finished" /\ req[r].outcome.kind = "throw"
        /\ LastCall(req[r]).cmd = "page" /\ LastCall(req[r]).page = 0
        /\ LastCall(req[r]).exit = "fail"

\* C3: every entry of a returned result is non-empty SVG text; a fallback that leaves
\* a zero-size output file makes the call raise
C3_NoEmptyEntry ==
    \A r \in Requests :
        req[r].outcome.kind = "return"
        => \A i \in 1..Len(req[r].outcome.svgs) : req[r].outcome.svgs[i] # <<>>

\* the resolved path is the temp root or lies beneath it as a path
IsWithin(resolvedPath, root) ==
    resolvedPath = root \/ StartsWith(resolvedPath, root \o <<Sep>>)

\* C4: a path passes validateFilePath only if its resolved form is the temp root or
\* beneath it; any other path is rejected with 'Invalid file path'
C4_OnlyPathsWithinTmp ==
    \A r \in Requests :
        LET q == req[r]
        IN  (q.hasFile /\ q.pc # "idle")
            => /\ q.validatedFilePath # <<>> => IsWithin(q.validatedFilePath, tmpDir)
               /\ ~IsWithin(pathResolve(q.uploadedFilePath), tmpDir)
                  => q.response.message = <<"Invalid file path">>

\* the request has passed the limiter and the upload middleware and is in the handler
\* or through it
ReachedHandler(q) == q.pc # "idle" /\ Middleware(q) = NoResponse

\* the handler's validation of the upload's path failed
ValidationFailed(q) == q.hasFile /\ ReachedHandler(q) /\ q.validatedFilePath = <<>>

\* what validateFilePath makes of each path a request can come with
ValidationOf ==
    (UploadPath :> validateFilePath(UploadPath))
        @@ (SiblingPath :> validateFilePath(SiblingPath))
        @@ (OutsidePath :> validateFilePath(OutsidePath))

\* every converter invocation that is given the input gets the path that the handler's
\* validateFilePath(uploadedFilePath) returned
InvocationsUseValidated(q) ==
    \A i \in 1..Len(q.calls) :
        q.calls[i].cmd # "version"
        => /\ ~ValidationOf[q.uploadedFilePath].throws
           /\ q.calls[i].path = ValidationOf[q.uploadedFilePath].value
           /\ q.calls[i].path = q.validatedFilePath

\* C5 as claimed: no converter invocation and no filesystem call, the cleanup unlink
\* included, uses an upload path that has not passed validateFilePath, and a request
\* whose path is rejected spawns nothing and makes no filesystem call on that path
C5_NoUseOfUnvalidatedPath ==
    \A r \in Requests :
        LET q == req[r]
        IN  /\ InvocationsUseValidated(q)
            /\ \A i \in 1..Len(q.fsPaths) :
                   /\ ~ValidationOf[q.uploadedFilePath].throws
                   /\ q.fsPaths[i].path = ValidationOf[q.uploadedFilePath].value
            /\ ValidationFailed(q) => (q.calls = <<>> /\ q.fsPaths = <<>>)

\* C5 as amended: no converter invocation uses an unvalidated path, and the only
\* filesystem call made with one is the cleanup unlink of a rejected upload; a request
\* whose path is rejected spawns no subprocess at all
C5_OnlyCleanupUsesRejectedPath ==
    \A r \in Requests :
        LET q == req[r]
        IN  /\ InvocationsUseValidated(q)
            /\ \A i \in 1..Len(q.fsPaths) :
                   \/ /\ ~ValidationOf[q.uploadedFilePath].throws
                      /\ q.fsPaths[i].path = ValidationOf[q.uploadedFilePath].value
                   \/ /\ ValidationFailed(q)
                      /\ q.fsPaths[i] = [op |-> "unlink", path |-> q.uploadedFilePath]
            /\ ValidationFailed(q) => (q.calls = <<>> /\ Len(q.fsPaths) <= 1)

\* a request whose path was rejected has finished: nothing spawned, the upload unlinked
C5_Witness ==
    \E r \in Requests :
        /\ ValidationFailed(req[r]) /\ req[r].pc = "finished"
        /\ req[r].calls = <<>>
        /\ req[r].fsPaths = <<[op |-> "unlink", path |-> req[r].uploadedFilePath]>>

\* C6: no two calls of convertAiToSvg get the same workspace directory
C6_WorkspacesDistinct ==
    \A r1, r2 \in Requests :
        (r1 # r2 /\ req[r1].created /\ req[r2].created)
        => req[r1].outputDir # req[r2].outputDir

\* what convertAiToSvg makes of a document when nothing else touches its workspace
AloneOutcome(doc) ==
    IF doc.pages > 0
    THEN [NoOutcome EXCEPT !.kind = "return",
             !.svgs = PagesOf(doc, IF doc.pages < MAX_PAGES THEN doc.pages ELSE MAX_PAGES)]
    ELSE IF doc.endMode = "fail"
    THEN [NoOutcome EXCEPT !.kind = "throw",
             !.message = ConversionFailed(ExecError(doc.endStderr)).message]
    ELSE IF doc.fb = "fail"
    THEN [NoOutcome EXCEPT !.kind = "throw",
             !.message = ConversionFailed(ExecError(doc.fbStderr)).message]
    ELSE IF doc.fb = "nofile"
    THEN [NoOutcome EXCEPT !.kind = "throw", !.message = NoOutputFile.message]
    ELSE IF doc.fb = "empty"
    THEN [NoOutcome EXCEPT !.kind = "return", !.svgs = << <<>> >>]
    ELSE [NoOutcome EXCEPT !.kind = "return", !.svgs = <<WholeSvg(doc)>>]

\* C7: under any interleaving, a call whose own filesystem calls succeed ends as it
\* would when run alone
C7_OutcomeAsWhenAlone ==
    \A r \in Requests :
        (Called(req[r]) /\ req[r].created /\ ~req[r].fsFault)
        => req[r].outcome = AloneOutcome(req[r].doc)

\* C8 as claimed: when a call that created a workspace returns or raises, the
\* workspace directory is gone
C8_WorkspaceRemovedOnEveryExit ==
    [][\A r \in Requests :
          (req[r].created /\ ~Called(req[r]) /\ Called(req'[r]))
          => req[r].outputDir \notin dirs']_vars

\* C8 as amended: a call that created a workspace has performed the recursive removal
\* when it returns or raises, on every exit path, and the directory is gone at that
\* moment unless the removal itself failed
C8_RemovalOnEveryExit ==
    [][\A r \in Requests :
          (req[r].created /\ ~Called(req[r]) /\ Called(req'[r]))
          => /\ req'[r].rmCalled
             /\ ~req'[r].rmFailed => req[r].outputDir \notin dirs']_vars

\* a call raised after its fallback failed, and its workspace is removed
C8_Witness ==
    \E r \in Requests :
        /\ req[r].created /\ req[r].outcome.kind = "throw"
        /\ LastCall(req[r]).cmd = "fallback"
        /\ req[r].rmCalled /\ ~req[r].rmFailed
        /\ req[r].outputDir \notin dirs

\* C9: a request that reached the handler with a file has had the deletion of its
\* uploaded file (by its stored path or by the resolved form of it) attempted by the
\* time the handler is finished, whatever the outcome
C9_UploadDeletionAttempted ==
    \A r \in Requests :
        LET q == req[r]
        IN  (q.pc = "finished" /\ q.hasFile /\ ReachedHandler(q))
            => /\ q.unlinkCalled
               /\ \E i \in 1..Len(q.fsPaths) :
                      /\ q.fsPaths[i].op = "unlink"
                      /\ q.fsPaths[i].path \in {q.uploadedFilePath, q.validatedFilePath}

\* the handler returned early because the converter is unavailable, and the deletion
\* was attempted
C9_Witness ==
    \E r \in Requests :
        /\ req[r].pc = "finished" /\ req[r].response.help
        /\ req[r].unlinkCalled /\ r \notin uploads

\* C10: a call whose fallback invocation failed or wrote no output file raises an error
\* whose message carries the stderr text of that invocation, if there was any, and its
\* workspace is removed
C10_FallbackDiagnosticCarried ==
    \A r \in Requests :
        LET q == req[r]
        IN  (Called(q) /\ q.calls # <<>> /\ LastCall(q).cmd = "fallback"
               /\ (LastCall(q).exit = "fail" \/ ~LastCall(q).wrote))
            => /\ q.outcome.kind = "throw"
               /\ LastCall(q).stderr # NoStderr
                  => Includes(q.outcome.message, LastCall(q).stderr)
               /\ ~q.rmFailed => q.outputDir \notin dirs

\* the page-0 invocation of the call succeeded
FirstPageSucceeded(q) ==
    \E i \in 1..Len(q.calls) :
        q.calls[i].cmd = "page" /\ q.calls[i].page = 0 /\ q.calls[i].exit = "ok"

\* C11: when the page-0 invocation succeeded without a usable output file and the
\* whole-document invocation then succeeded and wrote its output file, the call (its
\* filesystem calls succeeding) returns exactly one string, the content of that file
C11_FallbackResultReturned ==
    \A r \in Requests :
        LET q == req[r]
        IN  (Called(q) /\ ~q.fsFault /\ q.calls # <<>> /\ FirstPageSucceeded(q)
               /\ LastCall(q).cmd = "fallback" /\ LastCall(q).exit = "ok" /\ LastCall(q).wrote)
            => /\ q.outcome.kind = "return"
               /\ q.outcome.svgs = <<InkscapeWhole(q.doc).content>>

\* a call returned the one SVG text of the whole-document export
C11_Witness ==
    \E r \in Requests :
        /\ Called(req[r]) /\ FirstPageSucceeded(req[r])
        /\ LastCall(req[r]).cmd = "fallback"
        /\ req[r].outcome.kind = "return"
        /\ req[r].outcome.svgs = <<WholeSvg(req[r].doc)>>
        /\ req[r].response.status = 200 /\ req[r].response.count = 1

\* C12: on a document that has a page for every index the loop asks for, the converter
\* is invoked for the page indexes 0..99 only, and the call (its filesystem calls
\* succeeding) returns exactly MAX_PAGES results without a fallback and without raising
C12_StopsAtPageLimit ==
    \A r \in Requests :
        LET q == req[r]
        IN  q.doc.pages >= MAX_PAGES
            => /\ \A i \in 1..Len(q.calls) :
                      q.calls[i].cmd = "page" => q.calls[i].page \in 0..(MAX_PAGES - 1)
               /\ (Called(q) /\ q.created /\ ~q.fsFault)
                  => /\ q.outcome.kind = "return"
                     /\ Len(q.outcome.svgs) = MAX_PAGES
                     /\ LastCall(q).cmd = "page" /\ LastCall(q).page = MAX_PAGES - 1

\* a document of more than MAX_PAGES pages was cut at the limit
C12_Witness ==
    \E r \in Requests :
        /\ req[r].doc.pages > MAX_PAGES
        /\ req[r].pc = "finished" /\ req[r].outcome.kind = "return"
        /\ Len(req[r].outcome.svgs) = MAX_PAGES
        /\ LastCall(req[r]).cmd = "page" /\ LastCall(req[r]).page = MAX_PAGES - 1
        /\ req[r].response.status = 200 /\ req[r].response.count = MAX_PAGES

\* the upload is not of an accepted type: neither its MIME type nor its name says .ai
NotAiFile(q) ==
    /\ q.hasFile
    /\ q.file.mimetype \notin {"application/postscript", "application/illustrator"}
    /\ ~EndsWith(ToLowerCase(q.file.originalname), <<".", "a", "i">>)

\* C13: an upload rejected by the file-type validation is answered with status 400 and
\* the body {error: 'Only .ai files are allowed'}
C13_TypeRejectionIsClientError ==
    \A r \in Requests :
        LET q == req[r]
        IN  (q.pc = "finished" /\ ~RateLimited(q.hits) /\ NotAiFile(q))
            => /\ q.response.status = 400
               /\ q.response.error = "Only .ai files are allowed"

\* C14: whenever GET /health is served while the converter cannot be called, the
\* answer is 200 with inkscape.available false
C14_HealthReportsUnavailable ==
    (health.status # 0 /\ ~health.callable)
    => (health.status = 200 /\ health.available = FALSE)

\* the availability check of the handler failed
ProbeFailed(q) ==
    \E i \in 1..Len(q.calls) : q.calls[i].cmd = "version" /\ q.calls[i].exit = "fail"

\* the availability check of the handler succeeded
ProbeSucceeded(q) ==
    \E i \in 1..Len(q.calls) : q.calls[i].cmd = "version" /\ q.calls[i].exit = "ok"

\* convertAiToSvg has been called
ConversionAttempted(q) == q.outputDir # NoDir \/ Called(q)

\* C15: whatever the startup flag says, a request whose availability check failed is
\* answered 500 with install guidance and never calls convertAiToSvg (no workspace, no
\* invocation but the check), and a request whose check succeeded calls it
C15_ProbeAloneDecides ==
    \A r \in Requests :
        LET q == req[r]
        IN  /\ ProbeFailed(q)
               => /\ q.response.status = 500 /\ q.response.help
                  /\ q.response.error = "Inkscape is not installed or not available in PATH"
                  /\ ~ConversionAttempted(q) /\ ~q.created
                  /\ Len(q.calls) = 1
            /\ ProbeSucceeded(q) => (ConversionAttempted(q) /\ ~q.response.help)
            /\ q.response.help => ProbeFailed(q)

\* the startup check found no converter; since then one request was converted and
\* another was refused with the install guidance
C15_Witness ==
    /\ checked /\ ~inkscapeAvailable
    /\ \E r \in Requests :
          /\ req[r].pc = "finished" /\ ProbeSucceeded(req[r])
          /\ req[r].outcome.kind = "return" /\ req[r].response.status = 200
    /\ \E r \in Requests :
          /\ req[r].pc = "finished" /\ ProbeFailed(req[r]) /\ req[r].response.help

\* C16: every failure response to POST /convert has a JSON body with an 'error' field,
\* and the response to a conversion failure also has a 'message' field that holds the
\* text of the error convertAiToSvg raised
C16_FailuresCarryError ==
    \A r \in Requests :
        LET q == req[r]
        IN  /\ q.response.status >= 400
               => (q.response.text = "" /\ q.response.error # "")
            /\ (Called(q) /\ q.outcome.kind = "throw" /\ q.response.status # 0)
               => /\ q.response.status = 500
                  /\ q.response.error = "Failed to convert file"
                  /\ q.response.message = q.outcome.message

\* C17: of two calls made one after the other on the same document, with every
\* filesystem call succeeding, the second ends as the first did (the same pages with the
\* same contents), and the only workspace directory ever on disk is that of the call in
\* progress: none is left by a call that has ended, none when no call is in progress
C17_SameResultNoLeak ==
    (\A r \in Requests : ~req[r].fsFault)
    => /\ \A r1, r2 \in Requests :
              (Called(req[r1]) /\ Called(req[r2])) => req[r1].outcome = req[r2].outcome
       /\ dirs \subseteq { req[r].outputDir : r \in { x \in Requests : ~Called(req[x]) } }

\* both calls returned the same pages, and nothing is left on disk
C17_Witness ==
    /\ \A r \in Requests :
          /\ req[r].pc = "finished" /\ req[r].created /\ ~req[r].fsFault
          /\ req[r].outcome.kind = "return" /\ Len(req[r].outcome.svgs) >= 1
    /\ \A r1, r2 \in Requests : req[r1].outcome.svgs = req[r2].outcome.svgs
    /\ dirs = {}

\* C18: once the invocation for a page index n > 0 has failed, it is the last converter
\* invocation of the call (the loop stops, there is no fallback), no error is raised,
\* and the call returns exactly the n results accumulated for the indexes 0..n-1
C18_LaterFailureEndsLoop ==
    \A r \in Requests :
        LET q == req[r]
        IN  \A i \in 1..Len(q.calls) :
                (q.calls[i].cmd = "page" /\ q.calls[i].page > 0 /\ q.calls[i].exit = "fail")
                => /\ i = Len(q.calls)
                   /\ q.pc \in {"rm", "unlink", "finished"}
                   /\ ~q.error.thrown
                   /\ Len(q.svgResults) = q.calls[i].page
                   /\ Called(q) => /\ q.outcome.kind = "return"
                                   /\ q.outcome.svgs = q.svgResults
                                   /\ q.response.status = 200
                                   /\ q.response.svgs = q.svgResults

\* a call returned its two pages after the invocation for the third failed
C18_Witness ==
    \E r \in Requests :
        /\ req[r].pc = "finished" /\ req[r].outcome.kind = "return"
        /\ LastCall(req[r]).cmd = "page" /\ LastCall(req[r]).exit = "fail"
        /\ LastCall(req[r]).page >= 2
        /\ req[r].outcome.svgs = PagesOf(req[r].doc, LastCall(req[r]).page)

\* C19: the page invocations of a call are made one after the other for the indexes
\* 0, 1, 2, ... without a gap or a repetition: the one for index 0 follows the query and
\* has no --pdf-page argument, the one for an index n >= 1 has --pdf-page=n+1 and is
\* made right after the invocation for n-1 succeeded and wrote its file, when that
\* file's non-empty content is entry n-1 of the result
C19_PagesSequential ==
    \A r \in Requests :
        LET q == req[r]
        IN  \A i \in 1..Len(q.calls) :
                q.calls[i].cmd = "page"
                => /\ i > 1
                   /\ IF q.calls[i].page = 0
                      THEN /\ q.calls[i].pdfPage = NoPdfPage
                           /\ q.calls[i - 1].cmd = "query"
                      ELSE /\ q.calls[i].pdfPage = q.calls[i].page + 1
                           /\ q.calls[i - 1].cmd = "page"
                           /\ q.calls[i - 1].page = q.calls[i].page - 1
                           /\ q.calls[i - 1].exit = "ok" /\ q.calls[i - 1].wrote
                           /\ Len(q.svgResults) >= q.calls[i].page
                           /\ q.svgResults[q.calls[i].page] # <<>>
                           /\ q.svgResults[q.calls[i].page] = PageSvg(q.doc, q.calls[i].page - 1)

\* a call that made the invocations for the indexes 0, 1 and 2, the last of them with
\* --pdf-page=3, has ended
C19_Witness ==
    \E r \in Requests :
        /\ req[r].pc = "finished" /\ Len(req[r].calls) >= 5
        /\ req[r].calls[3].cmd = "page" /\ req[r].calls[3].page = 0
        /\ req[r].calls[3].pdfPage = NoPdfPage
        /\ req[r].calls[5].cmd = "page" /\ req[r].calls[5].page = 2
        /\ req[r].calls[5].pdfPage = 3
        /\ Len(req[r].outcome.svgs) >= 2

\* the response the handler builds from the way convertAiToSvg ended
ResponseTo(outcome) ==
    IF outcome.kind = "return"
    THEN [NoResponse EXCEPT !.status = 200, !.success = TRUE,
                            !.count = Len(outcome.svgs), !.svgs = outcome.svgs]
    ELSE [NoResponse EXCEPT !.status = 500, !.error = "Failed to convert file",
                            !.message = outcome.message]

\* the response of a request that reached the handler with a file, when every
\* filesystem call succeeds
ResponseWithCleanup(q) ==
    IF ValidationFailed(q) THEN ResponseTo([NoOutcome EXCEPT !.kind = "throw",
                                               !.message = InvalidFilePath.message])
    ELSE IF ProbeFailed(q)
    THEN [NoResponse EXCEPT !.status = 500, !.help = TRUE,
             !.error = "Inkscape is not installed or not available in PATH"]
    ELSE ResponseTo(AloneOutcome(q.doc))

\* the filesystem failures so far are all failures of the cleanup: of the removal of a
\* workspace or of the deletion of an uploaded file
OnlyCleanupFailed ==
    faults = Cardinality({r \in Requests : req[r].rmFailed})
               + Cardinality({r \in Requests : req[r].unlinkFailed})

\* C20: a request whose workspace removal or upload deletion fails, and no other
\* filesystem call, gets the response (status and body) it gets when the cleanup
\* succeeds
C20_CleanupFailureKeepsResponse ==
    \A r \in Requests :
        LET q == req[r]
        IN  (q.pc = "finished" /\ q.unlinkCalled /\ OnlyCleanupFailed)
            => q.response = ResponseWithCleanup(q)

\* a request was answered with its pages although the removal of its workspace
\* failed, and is finished
C20_Witness ==
    \E r \in Requests :
        /\ req[r].pc = "finished" /\ req[r].rmFailed /\ req[r].outputDir \in dirs
        /\ req[r].response.status = 200 /\ req[r].response.count >= 1
        /\ req[r].response = ResponseWithCleanup(req[r])

\* the export invocations of a call: those after the availability check and the query
Exports(q) == SubSeq(q.calls, 3, Len(q.calls))

\* the --query-all invocation of the call failed
QueryFailed(q) ==
    Len(q.calls) >= 2 /\ q.calls[2].cmd = "query" /\ q.calls[2].exit = "fail"

\* C21: of two calls on the same document that differ only in whether --query-all
\* succeeds (every filesystem call succeeding), both end the same way, with the same
\* pages or the same error, after the same sequence of export invocations; and a failed
\* query is followed by the export of page index 0, not by an error
C21_ProbeOutcomeIrrelevant ==
    (\A r \in Requests : ~req[r].fsFault)
    => /\ \A r1, r2 \in Requests :
              (Called(req[r1]) /\ Called(req[r2])
                 /\ req[r1].doc = [req[r2].doc EXCEPT !.queryOk = ~@])
              => /\ req[r1].outcome = req[r2].outcome
                 /\ Exports(req[r1]) = Exports(req[r2])
       /\ \A r \in Requests :
              QueryFailed(req[r])
              => /\ Len(req[r].calls) = 2 => (req[r].pc = "export" /\ ~req[r].error.thrown)
                 /\ Len(req[r].calls) > 2
                    => (req[r].calls[3].cmd = "page" /\ req[r].calls[3].page = 0)

\* the call whose query succeeded and the call whose query failed returned the same
\* pages after the same exports
C21_Witness ==
    \E r1, r2 \in Requests :
        /\ req[r1].pc = "finished" /\ req[r2].pc = "finished"
        /\ Len(req[r1].calls) >= 2 /\ req[r1].calls[2].cmd = "query"
        /\ req[r1].calls[2].exit = "ok" /\ QueryFailed(req[r2])
        /\ req[r1].outcome.kind = "return" /\ Len(req[r1].outcome.svgs) >= 2
        /\ req[r1].outcome = req[r2].outcome
        /\ Exports(req[r1]) = Exports(req[r2])

\* how many invocations of a kind a call has made
CountOf(q, cmd) == Cardinality({ i \in 1..Len(q.calls) : q.calls[i].cmd = cmd })

\* C22: a call makes at most one query, at most MAX_PAGES page invocations and at most
\* one whole-document invocation, at most MAX_PAGES exports in all; the whole-document
\* invocation is made only after exactly one query and exactly one page invocation, that
\* of page index 0, which exited successfully, and (the filesystem calls succeeding)
\* while the output file of that page is missing or empty
C22_FallbackOnceAfterEmptyFirstPage ==
    \A r \in Requests :
        LET q == req[r]
        IN  /\ CountOf(q, "query") <= 1
            /\ CountOf(q, "fallback") <= 1
            /\ CountOf(q, "page") + CountOf(q, "fallback") <= MAX_PAGES
            /\ CountOf(q, "fallback") = 1
               => /\ CountOf(q, "query") = 1 /\ CountOf(q, "page") = 1
                  /\ Len(q.calls) = 4
                  /\ q.calls[2].cmd = "query"
                  /\ q.calls[3].cmd = "page" /\ q.calls[3].page = 0
                  /\ q.calls[3].exit = "ok"
                  /\ q.calls[4].cmd = "fallback" /\ q.calls[4].pdfPage = NoPdfPage
                  /\ ~q.fsFault
                     => /\ ~q.calls[3].wrote \/ InkscapePage(q.doc, 0).content = <<>>
                        /\ q.pc \in {"access", "readfb", "rm"}
                           => \/ ~Exists(files, PageFile(q.outputDir, 0))
                              \/ Len(files[PageFile(q.outputDir, 0)]) = 0

\* a call whose first page came out as an empty file made one query, one page
\* invocation and one whole-document invocation, and has ended
C22_Witness ==
    \E r \in Requests :
        /\ req[r].pc = "finished" /\ Called(req[r])
        /\ CountOf(req[r], "fallback") = 1 /\ CountOf(req[r], "page") = 1
        /\ CountOf(req[r], "query") = 1
        /\ req[r].calls[3].exit = "ok" /\ req[r].calls[3].wrote
        /\ LastCall(req[r]).cmd = "fallback"

====
